---- MODULE Spec2Model ----
(***************************************************************************)
(* A model of the spatial visualization app: the Streamlit script          *)
(* (visualization_app.py: load_data and main, one script run per user      *)
(* event) and the visualization helper (visualization_tool.py:             *)
(* clear_map_html, create_map, VisualizationTool).                         *)
(*                                                                         *)
(* Python values are modelled as follows.  An Optional value is a tuple:   *)
(* None is <<>> and a present value x is <<x>>.  A dict is a function      *)
(* whose DOMAIN is the set of keys.  folium's map._children (an ordered    *)
(* dict) is the sequence of its children in insertion order.  The value    *)
(* True returned by visualize is the string "True"; the value None and a   *)
(* propagated exception are told apart from it by the outcome's fields.    *)
(***************************************************************************)
EXTENDS Integers, Sequences, FiniteSets, TLC

VARIABLES
    session_state,  \* st.session_state of each browser session
    config,         \* streamlit's process-wide configuration (theme options)
    pending,        \* per session: st.rerun() was called, the next run is due
    screen,         \* per session: the messages of the last run that reached
                    \* the end of the script (none while a rerun is due)
    emitted,        \* per session: the error messages that load_data and a
                    \* Visualize click emitted in the run st.rerun() ended
    last,           \* the last script run: its session and its event
    call,           \* the call of VisualizationTool.visualize a script run or
                    \* a direct caller made (None: no call): its inputs
    ret,            \* ... and its outcome
    html_in,        \* a call of clear_map_html: its input markup
    html_out,       \* ... and its output
    load_in,        \* a batch handed to load_data: the dictionary and the files
    load_out,       \* ... and its outcome
    panel_in,       \* the widget values of a part of the settings panel
    panel_out       \* ... and what the panel builds from them

vars == <<session_state, config, pending, screen, emitted, last,
          call, ret, html_in, html_out, load_in, load_out,
          panel_in, panel_out>>

appVars  == <<session_state, config, pending, screen, emitted, last>>
toolVars == <<call, ret>>
htmlVars == <<html_in, html_out>>
loadVars == <<load_in, load_out>>
panelVars == <<panel_in, panel_out>>

-----------------------------------------------------------------------------
(* Bounds of the model *)

MaxDatasets == 2    \* datasets a session holds at most
MaxBatch    == 2    \* files of one upload batch at most
MaxChildren == 2    \* layers added to a session's map at most
MaxUploads  == 2    \* upload batches per session (caps file_uploader_key)
MaxHtmlLen  == 4    \* pieces of a markup handed to clear_map_html at most

-----------------------------------------------------------------------------
(* Python values *)

None == <<>>
Some(x) == <<x>>
Truthy(o) == o # None
Val(o) == o[1]

RECURSIVE SeqsUpTo(_, _)
SeqsUpTo(S, n) ==
    IF n = 0 THEN {<<>>}
    ELSE LET shorter == SeqsUpTo(S, n - 1)
         IN shorter \cup {Append(q, x) : q \in {r \in shorter : Len(r) = n - 1}, x \in S}

Keys(d) == DOMAIN d
EmptyDict == [k \in {} |-> None]
DictSet(d, k, v) == [x \in (DOMAIN d) \cup {k} |-> IF x = k THEN v ELSE d[x]]

-----------------------------------------------------------------------------
(* clear_map_html.  A markup is a sequence of pieces: a piece of kind      *)
(* "var" is one text matched by layer_control_var_pattern, a piece of kind *)
(* "creation" one text matched by layer_control_creation_pattern, and a    *)
(* piece of kind "text" is markup that neither pattern matches.  Two       *)
(* pieces are the same text iff they are equal (same kind and same id).    *)

Piece(kind, id) == [kind |-> kind, id |-> id]

HtmlPieces ==
    {Piece("var", 1), Piece("var", 2),
     Piece("creation", 1), Piece("creation", 2),
     Piece("text", 0)}

\* list(re.finditer(pattern, html_content)): the matched texts, in order
finditer(kind, html) == SelectSeq(html, LAMBDA p : p.kind = kind)

\* html_content.replace(text, ''): every occurrence of the text is removed
StrReplace(html, text) == SelectSeq(html, LAMBDA p : p # text)

\* for match in matches[:-1]: html_content = html_content.replace(match.group(0), '')
RECURSIVE RemoveMatches(_, _)
RemoveMatches(html, matches) ==
    IF matches = <<>> THEN html
    ELSE RemoveMatches(StrReplace(html, Head(matches)), Tail(matches))

AllButLast(s) == SubSeq(s, 1, Len(s) - 1)

clear_map_html(html_content) ==
    LET var_matches == finditer("var", html_content)
        creation_matches == finditer("creation", html_content)
        h1 == IF Len(var_matches) > 1
              THEN RemoveMatches(html_content, AllButLast(var_matches))
              ELSE html_content
        h2 == IF Len(creation_matches) > 1
              THEN RemoveMatches(h1, AllButLast(creation_matches))
              ELSE h1
    IN h2

-----------------------------------------------------------------------------
(* The folium map: the sequence of map._children *)

Child(kind, name) == [kind |-> kind, name |-> name]

add_layer_control(map) == Append(map, Child("layer_control", ""))

create_map ==
    <<Child("geocoder", ""),
      Child("feature_group", "Geometries"),
      Child("draw", ""),
      Child("mouse_position", ""),
      Child("fullscreen", ""),
      Child("locate_control", ""),
      Child("measure_control", ""),
      Child("tile_layer", "Google Satellite Hybrid"),
      Child("tile_layer", "OpenTopoMap"),
      Child("side_by_side_layers", ""),
      Child("layer_control", "")>>

NumControls(map) == Len(SelectSeq(map, LAMBDA c : c.kind = "layer_control"))

\* the layers visualize added to the map (those create_map did not add)
AddedLayers(map) ==
    SelectSeq(map, LAMBDA c : c.kind \in {"geo_json", "heat_map"})

-----------------------------------------------------------------------------
(* Datasets.  A GeoDataFrame is known by the geometry types of its rows    *)
(* and by its columns: the numeric ones and the others (object dtype).     *)

Dataset(cls, types, numeric, other) ==
    [class |-> cls, types |-> types, numeric |-> numeric, other |-> other]

PointsGdf   == Dataset("GeoDataFrame", {"Point"}, {"pop"}, {"kind"})
PolygonsGdf == Dataset("GeoDataFrame", {"Polygon"}, {"pop"}, {})
LinesGdf    == Dataset("GeoDataFrame", {"LineString"}, {}, {})
PlainFrame  == Dataset("DataFrame", {}, {"pop"}, {"kind"})
RoadsGdf    == Dataset("GeoDataFrame", {"LineString"}, {"lanes"}, {"name"})

\* gdf.columns
Columns(gdf) == gdf.numeric \cup gdf.other \cup {"geometry"}
\* gpd.pd.api.types.is_numeric_dtype(gdf[column])
is_numeric_dtype(gdf, column) == column \in gdf.numeric
\* len(gdf[gdf.geometry.type == 'Point'])
HasPoints(gdf) == "Point" \in gdf.types

-----------------------------------------------------------------------------
(* Numeric and Categorical (pydantic models) *)

\* the fields the model Numeric declares (lines 134-140)
NumericFields ==
    {"gdf_column", "k", "scheme", "cmap", "vmin", "vmax", "legend_caption"}

\* the fields the model Categorical declares (lines 144-148)
CategoricalFields == {"gdf_column", "cmap", "legend_caption", "categories"}

\* BaseModel.__init__(**kwargs): a pydantic model keeps the keyword arguments
\* that are fields of the model and ignores the others (the models set no
\* extra = 'allow' or 'forbid')
BaseModel(fields, kwargs) == [f \in fields |-> kwargs[f]]

Numeric(gdf_column, k, scheme, cmap, vmin, vmax, legend_caption) ==
    [gdf_column |-> gdf_column, k |-> k, scheme |-> scheme, cmap |-> cmap,
     vmin |-> vmin, vmax |-> vmax, legend_caption |-> legend_caption]

Categorical(gdf_column, cmap, legend_caption, categories) ==
    [gdf_column |-> gdf_column, cmap |-> cmap,
     legend_caption |-> legend_caption, categories |-> categories]

-----------------------------------------------------------------------------
(* VisualizationTool.  self is [map, env, current_fig]; a call's arguments *)
(* are the record a; faults is the set of library calls that raise in this *)
(* call: "render" is the routine's rendering call (gdf.explore, HeatMap,    *)
(* gdf.plot, _to_png), "fit_map" the zoom to the dataset.  The outcome of  *)
(* a call is [result, raised, map, env, current_fig, renderers]:           *)
(* renderers is the sequence of _visualize_<mode>_<method> routines the    *)
(* call invoked, raised tells that an exception left visualize.            *)

TrueResult == "True"
NoneResult == "None"

MsgRequired == "GeoDataFrame name and layer name are required."
MsgNoOption == "At least one visualization option must be provided."
MsgInvalidName(gdf_name) == gdf_name \o " is not a valid GeoDataFrame name."
MsgNotSupported(gdf_name) == gdf_name \o " is of a type which is not supported."
MsgInvalidMethod(method) ==
    "Invalid method '" \o method \o "'. Use 'explore' or 'plot'."
MsgColumnNotFound(column, gdf_name) ==
    "Column '" \o column \o "' not found in " \o gdf_name \o "."
MsgNotNumeric(column) == "Column '" \o column \o "' is not numeric."
MsgNoPoints(gdf_name) == "No point geometries found in " \o gdf_name \o "."
MsgNumericFailed(column, gdf_name) ==
    "Could not visualize numeric column '" \o column \o "' of " \o gdf_name \o "."
MsgCategoricalFailed(column, gdf_name) ==
    "Could not visualize categorical column '" \o column \o "' of " \o gdf_name \o "."
MsgHeatmapFailed(gdf_name) == "Could not create heatmap for " \o gdf_name \o "."
MsgGeometriesFailed(gdf_name) ==
    "Could not visualize geometries of " \o gdf_name \o "."

Tool(map, env) == [map |-> map, env |-> env, current_fig |-> None]

Outcome(self, result, renderers) ==
    [result |-> result, raised |-> FALSE, map |-> self.map, env |-> self.env,
     current_fig |-> self.current_fig, renderers |-> renderers]

Raised(self) ==
    [result |-> NoneResult, raised |-> TRUE, map |-> self.map, env |-> self.env,
     current_fig |-> self.current_fig, renderers |-> <<>>]

WithMap(self, map) == [self EXCEPT !.map = map]

\* the body of the try block after the checks: the rendering call adds the
\* layer, then add_layer_control and fit_map; the except clause adds a
\* layer control and returns the message
ExploreAndFit(self, layer, faults, failed, renderer) ==
    IF "render" \in faults
    THEN Outcome(WithMap(self, add_layer_control(self.map)), failed, <<renderer>>)
    ELSE LET drawn == add_layer_control(Append(self.map, layer))
         IN IF "fit_map" \in faults
            THEN Outcome(WithMap(self, add_layer_control(drawn)), failed, <<renderer>>)
            ELSE Outcome(WithMap(self, drawn), TrueResult, <<renderer>>)

\* a variant that asks for the colorbar whatever the scheme (C11 tells it
\* from numeric_explore_kwargs)
numeric_explore_kwargs_AlwaysColorbar(params, layer_name) ==
    [column |-> params.gdf_column, cmap |-> params.cmap,
     vmin |-> params.vmin, vmax |-> params.vmax, name |-> layer_name,
     colorbar |-> TRUE,
     k |-> IF Truthy(params.k) /\ Val(params.k) # 0 THEN params.k ELSE None,
     scheme |-> IF Truthy(params.scheme) THEN params.scheme ELSE None,
     weight |-> "1.5"]

\* explore_kwargs of lines 267-284: the keyword arguments gdf.explore gets
\* (None for k or scheme: the key is not set).  A Scheme member is known by
\* its name, which is what line 284 passes.
numeric_explore_kwargs(params, layer_name) ==
    [column |-> params.gdf_column, cmap |-> params.cmap,
     vmin |-> params.vmin, vmax |-> params.vmax, name |-> layer_name,
     colorbar |-> (params.scheme = None),
     k |-> IF Truthy(params.k) /\ Val(params.k) # 0 THEN params.k ELSE None,
     scheme |-> IF Truthy(params.scheme) THEN params.scheme ELSE None,
     weight |-> "1.5"]

_visualize_numeric_explore(self, gdf, gdf_name, layer_name, params, faults) ==
    LET column == params.gdf_column
        me == "_visualize_numeric_explore"
    IN IF column \notin Columns(gdf)
       THEN Outcome(self, MsgColumnNotFound(column, gdf_name), <<me>>)
       ELSE IF ~is_numeric_dtype(gdf, column)
       THEN Outcome(self, MsgNotNumeric(column), <<me>>)
       ELSE ExploreAndFit(self, Child("geo_json", layer_name), faults,
                          MsgNumericFailed(column, gdf_name), me)

_visualize_categorical_explore(self, gdf, gdf_name, layer_name, params, faults) ==
    LET column == params.gdf_column
        me == "_visualize_categorical_explore"
    IN IF column \notin Columns(gdf)
       THEN Outcome(self, MsgColumnNotFound(column, gdf_name), <<me>>)
       ELSE ExploreAndFit(self, Child("geo_json", layer_name), faults,
                          MsgCategoricalFailed(column, gdf_name), me)

_visualize_heatmap_explore(self, gdf, gdf_name, layer_name, faults) ==
    LET me == "_visualize_heatmap_explore"
    IN IF ~HasPoints(gdf)
       THEN Outcome(self, MsgNoPoints(gdf_name), <<me>>)
       ELSE ExploreAndFit(self, Child("heat_map", layer_name), faults,
                          MsgHeatmapFailed(gdf_name), me)

_visualize_geometries_explore(self, gdf, gdf_name, layer_name, faults) ==
    ExploreAndFit(self, Child("geo_json", layer_name), faults,
                  MsgGeometriesFailed(gdf_name), "_visualize_geometries_explore")

\* gdf.plot(...) and the title: True, or the message of the except clause
PlotAndTitle(self, faults, failed, renderer) ==
    IF "render" \in faults
    THEN Outcome(self, failed, <<renderer>>)
    ELSE Outcome(self, TrueResult, <<renderer>>)

_visualize_numeric_plot(self, gdf, gdf_name, layer_name, params, faults) ==
    LET column == params.gdf_column
        me == "_visualize_numeric_plot"
    IN IF column \notin Columns(gdf)
       THEN Outcome(self, MsgColumnNotFound(column, gdf_name), <<me>>)
       ELSE IF ~is_numeric_dtype(gdf, column)
       THEN Outcome(self, MsgNotNumeric(column), <<me>>)
       ELSE PlotAndTitle(self, faults, MsgNumericFailed(column, gdf_name), me)

_visualize_categorical_plot(self, gdf, gdf_name, layer_name, params, faults) ==
    LET column == params.gdf_column
        me == "_visualize_categorical_plot"
    IN IF column \notin Columns(gdf)
       THEN Outcome(self, MsgColumnNotFound(column, gdf_name), <<me>>)
       ELSE PlotAndTitle(self, faults, MsgCategoricalFailed(column, gdf_name), me)

_visualize_heatmap_plot(self, gdf, gdf_name, layer_name, faults) ==
    LET me == "_visualize_heatmap_plot"
    IN IF ~HasPoints(gdf)
       THEN Outcome(self, MsgNoPoints(gdf_name), <<me>>)
       ELSE IF faults \cap {"render", "fit_map"} # {}
       THEN Outcome(self, MsgHeatmapFailed(gdf_name), <<me>>)
       ELSE Outcome(self, TrueResult, <<me>>)

_visualize_geometries_plot(self, gdf, gdf_name, layer_name, faults) ==
    PlotAndTitle(self, faults, MsgGeometriesFailed(gdf_name),
                 "_visualize_geometries_plot")

\* for item in list(self.map._children):
\*     if item.startswith('layer_control'): del self.map._children[item]
RemoveLayerControls(map) == SelectSeq(map, LAMBDA c : c.kind # "layer_control")

_visualize_explore(self, gdf, gdf_name, layer_name, a, faults) ==
    LET cleared == WithMap(self, RemoveLayerControls(self.map))
    IN IF Truthy(a.numeric)
       THEN _visualize_numeric_explore(cleared, gdf, gdf_name, layer_name,
                                       Val(a.numeric), faults)
       ELSE IF Truthy(a.categorical)
       THEN _visualize_categorical_explore(cleared, gdf, gdf_name, layer_name,
                                           Val(a.categorical), faults)
       ELSE IF a.heatmap
       THEN _visualize_heatmap_explore(cleared, gdf, gdf_name, layer_name, faults)
       ELSE IF a.geometries
       THEN _visualize_geometries_explore(cleared, gdf, gdf_name, layer_name, faults)
       ELSE Outcome(cleared, NoneResult, <<>>)

\* plt.subplots(1, 1, figsize=figsize): matplotlib's Figure raises ValueError
\* ("figure size must be positive finite") for a negative width or height
SubplotsRaises(figsize) == figsize[1] < 0 \/ figsize[2] < 0

_visualize_plot(self, gdf, gdf_name, layer_name, a, faults) ==
    IF SubplotsRaises(a.figsize)
    THEN Raised(self)
    ELSE LET fig == [self EXCEPT !.current_fig = Some([figsize |-> a.figsize])]
         IN IF Truthy(a.numeric)
            THEN _visualize_numeric_plot(fig, gdf, gdf_name, layer_name,
                                         Val(a.numeric), faults)
            ELSE IF Truthy(a.categorical)
            THEN _visualize_categorical_plot(fig, gdf, gdf_name, layer_name,
                                             Val(a.categorical), faults)
            ELSE IF a.heatmap
            THEN _visualize_heatmap_plot(fig, gdf, gdf_name, layer_name, faults)
            ELSE IF a.geometries
            THEN _visualize_geometries_plot(fig, gdf, gdf_name, layer_name, faults)
            ELSE Outcome(fig, NoneResult, <<>>)

Args(gdf_name, layer_name, method, numeric, categorical, heatmap, geometries, figsize) ==
    [gdf_name |-> gdf_name, layer_name |-> layer_name, method |-> method,
     numeric |-> numeric, categorical |-> categorical, heatmap |-> heatmap,
     geometries |-> geometries, figsize |-> figsize]

DefaultFigsize == <<12, 8>>

\* a variant that removes the layer controls before the checks (C10 tells
\* it from visualize)
visualize_ClearsControlsFirst(self, a, faults) ==
    LET cleared == IF a.method = "explore"
                   THEN WithMap(self, RemoveLayerControls(self.map))
                   ELSE self
    IN IF ~(a.gdf_name # "" /\ a.layer_name # "")
       THEN Outcome(cleared, MsgRequired, <<>>)
       ELSE IF ~(Truthy(a.numeric) \/ Truthy(a.categorical) \/ a.heatmap \/ a.geometries)
       THEN Outcome(cleared, MsgNoOption, <<>>)
       ELSE IF a.gdf_name \notin Keys(self.env)
       THEN Outcome(cleared, MsgInvalidName(a.gdf_name), <<>>)
       ELSE LET gdf == self.env[a.gdf_name]
            IN IF gdf.class # "GeoDataFrame"
               THEN Outcome(cleared, MsgNotSupported(a.gdf_name), <<>>)
               ELSE IF a.method = "explore"
               THEN _visualize_explore(self, gdf, a.gdf_name, a.layer_name, a, faults)
               ELSE IF a.method = "plot"
               THEN _visualize_plot(self, gdf, a.gdf_name, a.layer_name, a, faults)
               ELSE Outcome(self, MsgInvalidMethod(a.method), <<>>)

visualize(self, a, faults) ==
    IF ~(a.gdf_name # "" /\ a.layer_name # "")
    THEN Outcome(self, MsgRequired, <<>>)
    ELSE IF ~(Truthy(a.numeric) \/ Truthy(a.categorical) \/ a.heatmap \/ a.geometries)
    THEN Outcome(self, MsgNoOption, <<>>)
    ELSE IF a.gdf_name \notin Keys(self.env)
    THEN Outcome(self, MsgInvalidName(a.gdf_name), <<>>)
    ELSE LET gdf == self.env[a.gdf_name]
         IN IF gdf.class # "GeoDataFrame"
            THEN Outcome(self, MsgNotSupported(a.gdf_name), <<>>)
            ELSE IF a.method = "explore"
            THEN _visualize_explore(self, gdf, a.gdf_name, a.layer_name, a, faults)
            ELSE IF a.method = "plot"
            THEN _visualize_plot(self, gdf, a.gdf_name, a.layer_name, a, faults)
            ELSE Outcome(self, MsgInvalidMethod(a.method), <<>>)

-----------------------------------------------------------------------------
(* The session state (st.session_state) and the script's initial run       *)

Sessions == {"A", "B"}

\* main, lines 97-106 and 114-136: the state a session's first run creates;
\* uploader is the list of files held by the st.file_uploader widget whose
\* key is file_uploader_key (line 202)
NewSession ==
    [layers |-> EmptyDict,
     geodataframes |-> EmptyDict,
     map |-> create_map,
     file_uploader_key |-> 0,
     uploader |-> <<>>,
     themes |-> [current_theme |-> "light", refreshed |-> TRUE]]

NoRun == [session |-> "", event |-> "none"]

AppInit ==
    /\ session_state = [s \in Sessions |-> NewSession]
    /\ config = "default"
    /\ pending = [s \in Sessions |-> FALSE]
    /\ screen = [s \in Sessions |-> {}]
    /\ emitted = [s \in Sessions |-> {}]
    /\ last = NoRun

ToolIdle == call = None /\ ret = None
HtmlIdle == html_in = None /\ html_out = None
LoadIdle == load_in = None /\ load_out = None
PanelIdle == panel_in = None /\ panel_out = None

-----------------------------------------------------------------------------
(* load_data.  An uploaded file is [name, content, fault]: content is the  *)
(* GeoDataFrame the file holds, fault the step of load_data that raises on *)
(* it ("none", "read_file", "to_crs", or "sindex", which load_data itself  *)
(* catches).                                                               *)

File(name, content, fault) == [name |-> name, content |-> content, fault |-> fault]

PointsFile  == File("cities.geojson", PointsGdf, "none")
LinesFile   == File("Roads.ZIP", LinesGdf, "sindex")
TableFile   == File("notes.csv", PointsGdf, "none")
BrokenFile  == File("broken.geojson", PointsGdf, "read_file")
NoCrsFile   == File("nocrs.zip", LinesGdf, "to_crs")

\* os.path.splitext(uploaded_file.name)[1][1:].lower()
Extension(name) ==
    CASE name \in {"cities.geojson", "broken.geojson"} -> "geojson"
      [] name \in {"Roads.ZIP", "nocrs.zip"} -> "zip"
      [] name = "notes.csv" -> "csv"
      [] OTHER -> ""

MsgUnsupported(ext) == "Unsupported file format: " \o ext
MsgLoadError == "Error loading file"
MsgNoIndex == "Spatial index could not be created."
MsgLoaded(gdf_name) == "Loaded: " \o gdf_name

\* f"gdf_{len(env)}"
\* a variant that names the dataset after the last key held (C1 tells it
\* from GdfName)
GdfNameLastKey(env) ==
    "gdf_" \o ToString(IF Keys(env) = {} THEN 0 ELSE Cardinality(Keys(env)) - 1)

GdfName(env) == "gdf_" \o ToString(Cardinality(Keys(env)))

\* the outcome of load_data: the environment, the returned name (None on a
\* failure), the st.error messages and the st.warning messages
Loaded(env, name, errors, warnings) ==
    [env |-> env, name |-> name, errors |-> errors, warnings |-> warnings]

\* a variant that stores the dataset before to_crs (C5 tells it from
\* load_data)
load_data_StoresBeforeReprojecting(env, uploaded_file) ==
    LET ext == Extension(uploaded_file.name)
    IN IF ext \in {"geojson", "zip"}
       THEN IF uploaded_file.fault = "read_file"
            THEN Loaded(env, None, {MsgLoadError}, {})
            ELSE IF uploaded_file.fault = "to_crs"
            THEN Loaded(DictSet(env, GdfName(env), uploaded_file.content),
                        None, {MsgLoadError}, {})
            ELSE Loaded(DictSet(env, GdfName(env), uploaded_file.content),
                        Some(GdfName(env)), {},
                        IF uploaded_file.fault = "sindex" THEN {MsgNoIndex} ELSE {})
       ELSE Loaded(env, None, {MsgUnsupported(ext)}, {})

load_data(env, uploaded_file) ==
    LET ext == Extension(uploaded_file.name)
    IN IF ext \in {"geojson", "zip"}
       THEN IF uploaded_file.fault \in {"read_file", "to_crs"}
            THEN Loaded(env, None, {MsgLoadError}, {})
            ELSE Loaded(DictSet(env, GdfName(env), uploaded_file.content),
                        Some(GdfName(env)), {},
                        IF uploaded_file.fault = "sindex" THEN {MsgNoIndex} ELSE {})
       ELSE Loaded(env, None, {MsgUnsupported(ext)}, {})

\* for file in uploaded_files: gdf_name = load_data(file); if gdf_name: st.success(...)
\* The outcome: the environment, the names returned (one per file), the
\* error messages and the other messages.
RECURSIVE LoadAll(_, _)
LoadAll(env, files) ==
    IF files = <<>>
    THEN [env |-> env, names |-> <<>>, errors |-> {}, others |-> {}]
    ELSE LET one == load_data(env, Head(files))
             rest == LoadAll(one.env, Tail(files))
         IN [env |-> rest.env,
             names |-> <<one.name>> \o rest.names,
             errors |-> one.errors \cup rest.errors,
             others |-> one.warnings \cup rest.others \cup
                        (IF Truthy(one.name) THEN {MsgLoaded(Val(one.name))} ELSE {})]

-----------------------------------------------------------------------------
(* The settings panel of main (lines 362-610)                              *)

\* [s.name for s in Scheme]
SchemeNames ==
    <<"BoxPlot", "EqualInterval", "FisherJenks", "FisherJenksSampled",
      "HeadTailBreaks", "JenksCaspall", "JenksCaspallForced",
      "JenksCaspallSampled", "MaxP", "MaximumBreaks", "NaturalBreaks",
      "Quantiles", "Percentiles", "StdMean">>

DefaultSchemeIndex == 10
DefaultClasses == 5

\* st.selectbox(options, index=i): Python indexes from 0
OptionAt(options, index) == options[index + 1]

\* the members of Scheme, each known by its name
Scheme == {SchemeNames[i] : i \in 1..Len(SchemeNames)}

\* Scheme[scheme]: the member of that name
SchemeByName(scheme) == CHOOSE member \in Scheme : member = scheme

\* st.number_input("Number of classes", min_value=2, max_value=10, value=5)
MinClasses == 2
MaxClasses == 10

\* st.number_input("Point size", min_value=1, max_value=50, value=5)
DefaultPointSize == 5

\* st.number_input("Stroke width", ..., value=1.5), in tenths
DefaultStrokeSize == 15

\* gdf.geometry.type.isin(["LineString", "MultiLineString"]).any()
line_present(gdf) == gdf.types \cap {"LineString", "MultiLineString"} # {}

\* the values of the widgets of the numeric settings (lines 409-489)
NumericWidgets(col, continuous, scheme, k, cmap, use_custom_range, vmin, vmax, caption, point_size, stroke_size) ==
    [col |-> col, continuous |-> continuous, scheme |-> scheme, k |-> k,
     cmap |-> cmap, use_custom_range |-> use_custom_range,
     vmin |-> vmin, vmax |-> vmax, caption |-> caption,
     point_size |-> point_size, stroke_size |-> stroke_size]

\* the widgets as the panel first shows them for a column
DefaultNumericWidgets(col, continuous) ==
    NumericWidgets(col, continuous, OptionAt(SchemeNames, DefaultSchemeIndex),
                   DefaultClasses, "YlOrRd", FALSE, 0, 1, col \o " classification",
                   DefaultPointSize, DefaultStrokeSize)

\* lines 415-502: numeric_params as built from the widgets; a widget that is
\* not shown leaves its variable None
NumericPanel(gdf, w) ==
    LET scheme == IF ~w.continuous THEN Some(w.scheme) ELSE None
        k == IF ~w.continuous THEN Some(w.k) ELSE None
        custom == w.continuous /\ w.use_custom_range
        vmin == IF custom THEN Some(w.vmin) ELSE None
        vmax == IF custom THEN Some(w.vmax) ELSE None
        stroke_size == IF line_present(gdf) THEN Some(w.stroke_size) ELSE None
    IN BaseModel(NumericFields,
                 [gdf_column |-> w.col,
                  k |-> k,
                  scheme |-> IF Truthy(scheme) THEN Some(SchemeByName(Val(scheme))) ELSE None,
                  cmap |-> w.cmap,
                  vmax |-> vmax,
                  vmin |-> vmin,
                  legend_caption |-> w.caption,
                  point_size |-> w.point_size,
                  stroke_size |-> stroke_size])

\* i = 1; while layer_name_default in existing_layers:
\*     layer_name_default = f"{base_name}_{i}"; i += 1
RECURSIVE Numbered(_, _, _)
Numbered(base_name, i, existing_layers) ==
    LET candidate == base_name \o "_" \o ToString(i)
    IN IF candidate \in existing_layers
       THEN Numbered(base_name, i + 1, existing_layers)
       ELSE candidate

\* list(st.session_state["geodataframes"].keys()): the keys in the order they
\* were inserted.  load_data inserts the key gdf_{len(env)} and nothing but
\* Clear removes a key, so the n keys were inserted in the order
\* gdf_0, ..., gdf_{n-1}.
gdf_names(env) == [i \in 1..Cardinality(Keys(env)) |-> "gdf_" \o ToString(i - 1)]

\* a variant that preselects the first dataset (C18 tells it from
\* default_index)
default_index_First(names) == 0

\* default_index = len(gdf_names) - 1 if gdf_names else 0
default_index(names) == IF names # <<>> THEN Len(names) - 1 ELSE 0

\* the dataset the 'Select GeoDataFrame' box shows first (lines 325-335)
PreselectedGdf(env) == OptionAt(gdf_names(env), default_index(gdf_names(env)))

\* a variant that numbers the name once, with an if in place of the while
\* (C15 tells it from layer_name_default)
layer_name_default_NumbersOnce(selected_gdf, existing_layers) ==
    LET base_name == "Layer_" \o selected_gdf
    IN IF base_name \in existing_layers THEN base_name \o "_1" ELSE base_name

layer_name_default(selected_gdf, existing_layers) ==
    LET base_name == "Layer_" \o selected_gdf
    IN IF base_name \in existing_layers
       THEN Numbered(base_name, 1, existing_layers)
       ELSE base_name

VizTypes == {"Geometries Only", "Numeric", "Categorical", "Heatmap"}

Params(numeric, categorical, heatmap, geometries) ==
    [numeric_params |-> numeric, categorical_params |-> categorical,
     use_heatmap |-> heatmap, use_geometries |-> geometries]

\* the parameters the panel can build for a dataset and a visualization type
PanelParams(gdf, viz_type, continuous_choices) ==
    CASE viz_type = "Numeric" ->
            IF gdf.numeric = {}
            THEN {Params(None, None, FALSE, FALSE)}
            ELSE {Params(Some(NumericPanel(gdf, DefaultNumericWidgets(col, continuous))),
                         None, FALSE, FALSE) :
                     col \in gdf.numeric, continuous \in continuous_choices}
      [] viz_type = "Categorical" ->
            IF gdf.other = {}
            THEN {Params(None, None, FALSE, FALSE)}
            ELSE {Params(None, Some(Categorical(col, "Set3", col \o " Categories", None)),
                         FALSE, FALSE) : col \in gdf.other}
      [] viz_type = "Heatmap" -> {Params(None, None, HasPoints(gdf), FALSE)}
      [] OTHER -> {Params(None, None, FALSE, TRUE)}

\* lines 634-641
VisType(p) ==
    IF Truthy(p.numeric_params) THEN "numeric"
    ELSE IF Truthy(p.categorical_params) THEN "categorical"
    ELSE IF p.use_heatmap THEN "heatmap" ELSE "geometries"

\* lines 645-652
LayerInfo(selected_gdf, p) ==
    [geodataframe |-> selected_gdf,
     visualization_type |-> VisType(p),
     numeric_params |-> p.numeric_params,
     categorical_params |-> p.categorical_params,
     heatmap |-> p.use_heatmap,
     geometries |-> p.use_geometries]

-----------------------------------------------------------------------------
(* Script runs.  One action is one run of main for one user event, up to   *)
(* the end of the script, st.stop() or st.rerun(); after st.rerun() the    *)
(* session's next step is the run it asked for (Rerun).  The inputs of the *)
(* events are drawn from the sets of a record of limits L.                 *)

MsgGetStarted == "Upload a GeoJSON or zipped Shapefile file to get started."
MsgCleared == "Map cleared!"
MsgNoLayerSelected == "No layer selected for export!"
MsgExportError == "Error exporting PNG"
MsgPngExported == "PNG exported"
MsgHtmlExported == "Map exported as HTML"
MsgMap == "[map]"

ExportFigsize == <<12, 10>>

Full ==
    [sessions |-> {"A"},
     files |-> {PointsFile, LinesFile, TableFile},
     maxBatch |-> MaxBatch, maxDatasets |-> MaxDatasets,
     maxUploads |-> MaxUploads, maxChildren |-> MaxChildren,
     vizTypes |-> VizTypes, typed |-> {""}, retype |-> TRUE,
     continuous |-> {FALSE}, faults |-> {{}, {"render"}}, exportFaults |-> {{}},
     trace |-> FALSE]

Small ==
    [sessions |-> Sessions,
     files |-> {PointsFile, TableFile},
     maxBatch |-> 1, maxDatasets |-> 1, maxUploads |-> 1, maxChildren |-> 1,
     vizTypes |-> {"Geometries Only"}, typed |-> {}, retype |-> FALSE,
     continuous |-> {FALSE}, faults |-> {{}}, exportFaults |-> {{}},
     trace |-> FALSE]

Traced ==
    [sessions |-> {"A"},
     files |-> {PointsFile, LinesFile},
     maxBatch |-> 1, maxDatasets |-> 2, maxUploads |-> 2, maxChildren |-> 2,
     vizTypes |-> VizTypes, typed |-> {""}, retype |-> TRUE,
     continuous |-> BOOLEAN, faults |-> {{}, {"render"}},
     exportFaults |-> {{}, {"render"}},
     trace |-> TRUE]

\* what the rest of the script shows once the sidebar is done (lines 313-666)
MainArea(ss) ==
    IF Keys(ss.geodataframes) = {} THEN {MsgGetStarted} ELSE {MsgMap}

Ran(s, event) == [session |-> s, event |-> event]

\* a call of visualize on the tool self with the arguments a; faults names
\* the steps of the rendering that raise
Call(self, a, faults) == [self |-> self, a |-> a, faults |-> faults]

\* the run does not call visualize / the run calls visualize (the call is
\* kept in call and ret where the limits ask for it)
NoToolCall == call' = None /\ ret' = None
ToolCalled(L, c) ==
    IF L.trace
    THEN call' = Some(c) /\ ret' = Some(visualize(c.self, c.a, c.faults))
    ELSE NoToolCall

\* a variant that leaves the key of the uploader as it is (C14 tells it
\* from NextUploaderKey)
SameUploaderKey(key) == key

\* st.session_state["file_uploader_key"] += 1
NextUploaderKey(key) == key + 1

\* st.file_uploader(key=...): a widget under a new key is a new widget and
\* holds no file; under the same key it keeps its files
UploaderAfter(key, next_key, uploaded_files) ==
    IF next_key = key THEN uploaded_files ELSE <<>>

\* lines 206-212: the session state after the run has been through the batch
BatchRun(ss, uploaded_files) ==
    LET next_key == NextUploaderKey(ss.file_uploader_key)
    IN [ss EXCEPT !.geodataframes = LoadAll(ss.geodataframes, uploaded_files).env,
                  !.file_uploader_key = next_key,
                  !.uploader = UploaderAfter(ss.file_uploader_key, next_key,
                                             uploaded_files)]

\* lines 206-213: the user puts a batch in the uploader and the run sees it
Upload(s, L) ==
    /\ ~pending[s]
    /\ session_state[s].file_uploader_key < L.maxUploads
    /\ \E uploaded_files \in SeqsUpTo(L.files, L.maxBatch) \ {<<>>} :
          LET ss == session_state[s]
              done == LoadAll(ss.geodataframes, uploaded_files)
          IN /\ Cardinality(Keys(done.env)) <= L.maxDatasets
             /\ session_state' = [session_state EXCEPT ![s] =
                                     BatchRun(ss, uploaded_files)]
             /\ emitted' = [emitted EXCEPT ![s] = done.errors]
             /\ last' = Ran(s, "upload")
    /\ pending' = [pending EXCEPT ![s] = TRUE]
    /\ screen' = [screen EXCEPT ![s] = {}]
    /\ NoToolCall
    /\ UNCHANGED <<config, htmlVars, loadVars, panelVars>>

\* ChangeTheme (lines 139-150), the on_click callback of the theme button:
\* the options of the theme named by current_theme are written to the
\* process-wide configuration, then current_theme is flipped
ChangeTheme(themes) ==
    [config |-> IF themes.current_theme = "light" THEN "light" ELSE "dark",
     themes |-> [current_theme |-> IF themes.current_theme = "dark" THEN "light" ELSE "dark",
                 refreshed |-> FALSE]]

\* a click on the theme button: the callback, then the run, which stops at
\* line 161 (refreshed is set back to True, st.rerun())
ThemeClick(s) ==
    /\ ~pending[s]
    /\ LET changed == ChangeTheme(session_state[s].themes)
       IN /\ config' = changed.config
          /\ session_state' = [session_state EXCEPT ![s].themes =
                                  [changed.themes EXCEPT !.refreshed = TRUE]]
    /\ emitted' = [emitted EXCEPT ![s] = {}]
    /\ pending' = [pending EXCEPT ![s] = TRUE]
    /\ last' = Ran(s, "theme")
    /\ screen' = [screen EXCEPT ![s] = {}]
    /\ NoToolCall
    /\ UNCHANGED <<htmlVars, loadVars, panelVars>>

\* a variant that plots the geometries of the layer's dataset, whatever was
\* stored with the layer (C12 tells it from ExportCall)
ExportCall_PlotsGeometries(ss, selected_layer, faults) ==
    Call(Tool(ss.map, ss.geodataframes),
         Args(ss.layers[selected_layer].geodataframe, selected_layer, "plot",
              None, None, FALSE, TRUE, ExportFigsize),
         faults)

\* lines 242-275: the call of visualize a PNG export of a layer makes
ExportCall(ss, selected_layer, faults) ==
    LET layer_info == ss.layers[selected_layer]
    IN Call(Tool(ss.map, ss.geodataframes),
            Args(layer_info.geodataframe, selected_layer, "plot",
                 layer_info.numeric_params, layer_info.categorical_params,
                 layer_info.heatmap, layer_info.geometries, ExportFigsize),
            faults)

\* the export reaches line 266: PNG, a layer selected, its dataset found
ExportCalls(ss, export_format, selected_layer) ==
    /\ export_format = "Layer as PNG"
    /\ Truthy(selected_layer)
    /\ ss.layers[Val(selected_layer)].geodataframe \in Keys(ss.geodataframes)

\* lines 235-302: the messages of a click on Export
ExportMessages(ss, export_format, selected_layer, faults) ==
    IF export_format = "Layer as PNG"
    THEN IF ~Truthy(selected_layer)
         THEN {MsgNoLayerSelected}
         ELSE IF ~ExportCalls(ss, export_format, selected_layer)
         THEN {MsgExportError}
         ELSE LET c == ExportCall(ss, Val(selected_layer), faults)
                  o == visualize(c.self, c.a, c.faults)
              IN IF o.raised THEN {MsgExportError}
                 ELSE IF o.result = TrueResult THEN {MsgPngExported}
                 ELSE {"Error creating visualization: " \o o.result}
    ELSE {MsgHtmlExported}

\* the layer the 'Select a layer' box can hold (lines 221-225)
SelectableLayers(ss) ==
    IF Keys(ss.layers) = {} THEN {None} ELSE {Some(k) : k \in Keys(ss.layers)}

\* a click on Export: the run goes on to the end of the script
Export(s, L) ==
    /\ ~pending[s]
    /\ \E export_format \in {"Map as HTML", "Layer as PNG"},
          selected_layer \in SelectableLayers(session_state[s]),
          faults \in L.exportFaults :
          /\ screen' = [screen EXCEPT ![s] =
                ExportMessages(session_state[s], export_format, selected_layer, faults)
                \cup MainArea(session_state[s])]
          /\ IF ExportCalls(session_state[s], export_format, selected_layer)
             THEN ToolCalled(L, ExportCall(session_state[s], Val(selected_layer), faults))
             ELSE NoToolCall
          /\ last' = Ran(s, "export")
    /\ emitted' = [emitted EXCEPT ![s] = {}]
    /\ UNCHANGED <<session_state, config, pending, htmlVars, loadVars, panelVars>>

\* a variant that keeps the layer records (C6 tells it from Cleared)
Cleared_KeepsLayers(ss) ==
    [ss EXCEPT !.map = create_map, !.geodataframes = EmptyDict]

\* lines 306-311: a click on Clear
Cleared(ss) ==
    [ss EXCEPT !.map = create_map, !.geodataframes = EmptyDict, !.layers = EmptyDict]

Clear(s) ==
    /\ ~pending[s]
    /\ session_state' = [session_state EXCEPT ![s] = Cleared(session_state[s])]
    /\ emitted' = [emitted EXCEPT ![s] = {}]
    /\ pending' = [pending EXCEPT ![s] = TRUE]
    /\ last' = Ran(s, "clear")
    /\ screen' = [screen EXCEPT ![s] = {}]
    /\ NoToolCall
    /\ UNCHANGED <<config, htmlVars, loadVars, panelVars>>

\* a variant that records the layer whatever visualize returned (C20 tells
\* it from RecordLayer)
RecordLayer_Always(layers, layer_name, selected_gdf, p, result) ==
    DictSet(layers, layer_name, LayerInfo(selected_gdf, p))

\* lines 643-652: the layers dictionary after a Visualize click
RecordLayer(layers, layer_name, selected_gdf, p, result) ==
    IF result = TrueResult
    THEN DictSet(layers, layer_name, LayerInfo(selected_gdf, p))
    ELSE layers

\* lines 615-658: a click on Visualize (the button is there only when a
\* dataset is loaded, line 320)
Visualize(s, L) ==
    /\ ~pending[s]
    /\ Keys(session_state[s].geodataframes) # {}
    /\ Len(AddedLayers(session_state[s].map)) < L.maxChildren
    /\ LET ss == session_state[s]
       IN \E selected_gdf \in Keys(ss.geodataframes), viz_type \in L.vizTypes,
             faults \in L.faults :
          \E layer_name \in {layer_name_default(selected_gdf, Keys(ss.layers))}
                            \cup L.typed
                            \cup (IF L.retype THEN Keys(ss.layers) ELSE {}),
             p \in PanelParams(ss.geodataframes[selected_gdf], viz_type, L.continuous) :
             LET c == Call(Tool(ss.map, ss.geodataframes),
                           Args(selected_gdf, layer_name, "explore",
                                p.numeric_params, p.categorical_params,
                                p.use_heatmap, p.use_geometries, DefaultFigsize),
                           faults)
                 o == visualize(c.self, c.a, c.faults)
             IN /\ ToolCalled(L, c)
                /\ session_state' = [session_state EXCEPT ![s] =
                       [ss EXCEPT !.map = o.map,
                                  !.layers = RecordLayer(ss.layers, layer_name,
                                                         selected_gdf, p, o.result)]]
                /\ emitted' = [emitted EXCEPT ![s] =
                       IF o.result = TrueResult THEN {} ELSE {o.result}]
                /\ last' = Ran(s, "visualize")
    /\ pending' = [pending EXCEPT ![s] = TRUE]
    /\ screen' = [screen EXCEPT ![s] = {}]
    /\ UNCHANGED <<config, htmlVars, loadVars, panelVars>>

\* the run st.rerun() asked for: no button is triggered.  With an empty
\* uploader the script runs to its end (or to st.stop(), line 322) and its
\* output replaces the screen; a run that finds files in the uploader goes
\* through them and asks for the next run (lines 206-213).
Rerun(s) ==
    /\ pending[s]
    /\ LET ss == session_state[s]
       IN IF ss.uploader = <<>>
          THEN /\ pending' = [pending EXCEPT ![s] = FALSE]
               /\ screen' = [screen EXCEPT ![s] = MainArea(ss)]
               /\ emitted' = [emitted EXCEPT ![s] = {}]
               /\ UNCHANGED session_state
          ELSE /\ session_state' = [session_state EXCEPT ![s] =
                                       BatchRun(ss, ss.uploader)]
               /\ emitted' = [emitted EXCEPT ![s] =
                                 LoadAll(ss.geodataframes, ss.uploader).errors]
               /\ UNCHANGED <<pending, screen>>
    /\ last' = Ran(s, "rerun")
    /\ NoToolCall
    /\ UNCHANGED <<config, htmlVars, loadVars, panelVars>>

Init == AppInit /\ ToolIdle /\ HtmlIdle /\ LoadIdle /\ PanelIdle

\* the events on a session's datasets, layers and map
DataNext(s, L) ==
    \/ Upload(s, L)
    \/ Export(s, L)
    \/ Clear(s)
    \/ Visualize(s, L)
    \/ Rerun(s)

\* One session, its events drawn from the full input sets.  The theme
\* button is left to SpecSessions: ThemeClick reads and writes only themes
\* and config, which no other handler reads.
Next == \E s \in Full.sessions : DataNext(s, Full)

Spec == Init /\ [][Next]_vars

\* two sessions of the same process, their events drawn from small sets
NextSessions ==
    \E s \in Small.sessions : DataNext(s, Small) \/ ThemeClick(s)

SpecSessions == Init /\ [][NextSessions]_vars

\* one session, the call of visualize of every run kept in call and ret
NextTraced == \E s \in Traced.sessions : DataNext(s, Traced)

SpecTraced == Init /\ [][NextTraced]_vars

-----------------------------------------------------------------------------
(* Direct calls of VisualizationTool.visualize: every combination of the   *)
(* arguments below, on a tool whose map already holds one layer.           *)

ToolEnv ==
    [n \in {"gdf_0", "gdf_1", "frame"} |->
        IF n = "gdf_0" THEN PointsGdf
        ELSE IF n = "gdf_1" THEN PolygonsGdf ELSE PlainFrame]

ToolMap == add_layer_control(
               Append(RemoveLayerControls(create_map), Child("geo_json", "Layer_gdf_0")))

ToolNumerics ==
    {None} \cup {Some(Numeric(c, Some(5), Some("Quantiles"), "YlOrRd", None, None, "caption"))
                    : c \in {"pop", "kind", "area"}}

ToolCategoricals ==
    {None} \cup {Some(Categorical(c, "Set3", "caption", None)) : c \in {"kind", "area"}}

ToolFigsizes == {DefaultFigsize, <<-1, 8>>}

ToolFigures == {None, Some([figsize |-> <<12, 10>>])}

ToolFaults == {{}, {"render"}, {"fit_map"}}

ToolCalls ==
    {[self |-> [map |-> ToolMap, env |-> ToolEnv, current_fig |-> fig],
      a |-> Args(g, l, m, n, c, h, geo, fs),
      faults |-> f] :
        fig \in ToolFigures,
        g \in {"", "gdf_0", "gdf_1", "frame", "gdf_7"},
        l \in {"", "Layer_gdf_0"},
        m \in {"explore", "plot", "draw"},
        n \in ToolNumerics, c \in ToolCategoricals,
        h \in BOOLEAN, geo \in BOOLEAN,
        fs \in ToolFigsizes, f \in ToolFaults}

InitTool ==
    /\ AppInit
    /\ HtmlIdle
    /\ LoadIdle
    /\ PanelIdle
    /\ call \in {Some(c) : c \in ToolCalls}
    /\ ret = None

CallVisualize ==
    /\ call # None
    /\ ret = None
    /\ ret' = Some(visualize(Val(call).self, Val(call).a, Val(call).faults))
    /\ UNCHANGED <<call, appVars, htmlVars, loadVars, panelVars>>

NextTool == CallVisualize

SpecTool == InitTool /\ [][NextTool]_vars

-----------------------------------------------------------------------------
(* Calls of clear_map_html on every markup of at most MaxHtmlLen pieces    *)

InitHtml ==
    /\ AppInit
    /\ ToolIdle
    /\ LoadIdle
    /\ PanelIdle
    /\ html_in \in {Some(h) : h \in SeqsUpTo(HtmlPieces, MaxHtmlLen)}
    /\ html_out = None

CallClearMapHtml ==
    /\ html_in # None
    /\ html_out = None
    /\ html_out' = Some(clear_map_html(Val(html_in)))
    /\ UNCHANGED <<html_in, appVars, toolVars, loadVars, panelVars>>

NextHtml == CallClearMapHtml

SpecHtml == InitHtml /\ [][NextHtml]_vars

-----------------------------------------------------------------------------
(* The upload loop (lines 207-210) on every batch of at most MaxBatch      *)
(* files, starting from a dictionary that holds zero, one or two datasets  *)

LoadEnvs ==
    {EmptyDict,
     [n \in {"gdf_0"} |-> PolygonsGdf],
     [n \in {"gdf_0", "gdf_1"} |-> PolygonsGdf]}

LoadFiles == {PointsFile, LinesFile, TableFile, BrokenFile, NoCrsFile}

InitLoad ==
    /\ AppInit
    /\ ToolIdle
    /\ HtmlIdle
    /\ PanelIdle
    /\ load_in \in {Some([env |-> e, files |-> fs]) :
                        e \in LoadEnvs, fs \in SeqsUpTo(LoadFiles, MaxBatch)}
    /\ load_out = None

CallLoadData ==
    /\ load_in # None
    /\ load_out = None
    /\ load_out' = Some(LoadAll(Val(load_in).env, Val(load_in).files))
    /\ UNCHANGED <<load_in, appVars, toolVars, htmlVars, panelVars>>

NextLoad == CallLoadData

SpecLoad == InitLoad /\ [][NextLoad]_vars

-----------------------------------------------------------------------------
(* The numeric settings: every combination of the widget values below, on  *)
(* a dataset of points and on a dataset of lines                           *)

PointSizes == {DefaultPointSize, 20}
StrokeSizes == {DefaultStrokeSize, 30}

NumericInputs ==
    {[gdf |-> gdf,
      w |-> NumericWidgets(col, continuous, scheme, k, "YlOrRd", use_custom_range,
                           0, 100, col \o " classification", point_size, stroke_size)] :
        gdf \in {PointsGdf, RoadsGdf},
        col \in {"pop", "lanes"},
        continuous \in BOOLEAN,
        scheme \in Scheme,
        k \in MinClasses..MaxClasses,
        use_custom_range \in BOOLEAN,
        point_size \in PointSizes,
        stroke_size \in StrokeSizes}

InitNumeric ==
    /\ AppInit
    /\ ToolIdle
    /\ HtmlIdle
    /\ LoadIdle
    /\ panel_in \in {Some(i) : i \in {n \in NumericInputs : n.w.col \in n.gdf.numeric}}
    /\ panel_out = None

\* the panel builds numeric_params; a Visualize click hands them to
\* _visualize_numeric_explore, which builds the arguments of gdf.explore
BuildNumeric ==
    /\ panel_in # None
    /\ panel_out = None
    /\ LET numeric_params == NumericPanel(Val(panel_in).gdf, Val(panel_in).w)
       IN panel_out' = Some([numeric_params |-> numeric_params,
                             kwargs |-> numeric_explore_kwargs(numeric_params,
                                                               "Layer_gdf_0")])
    /\ UNCHANGED <<panel_in, appVars, toolVars, htmlVars, loadVars>>

NextNumeric == BuildNumeric

SpecNumeric == InitNumeric /\ [][NextNumeric]_vars

-----------------------------------------------------------------------------
(* The default of the 'Layer name' field, for every selected dataset and   *)
(* every set of recorded layer names drawn from the names below (defaults  *)
(* of earlier runs and names the user typed)                               *)

LayerNameChoices ==
    {"Layer_gdf_0", "Layer_gdf_0_1", "Layer_gdf_0_2", "Layer_gdf_0_3",
     "Layer_gdf_1", "Layer_gdf_1_1", "Layer_gdf_0_1_1", "roads"}

InitNames ==
    /\ AppInit
    /\ ToolIdle
    /\ HtmlIdle
    /\ LoadIdle
    /\ panel_in \in {Some([selected_gdf |-> d, existing_layers |-> e]) :
                         d \in {"gdf_0", "gdf_1"}, e \in SUBSET LayerNameChoices}
    /\ panel_out = None

ProposeLayerName ==
    /\ panel_in # None
    /\ panel_out = None
    /\ panel_out' = Some([layer_name_default |->
                             layer_name_default(Val(panel_in).selected_gdf,
                                                Val(panel_in).existing_layers)])
    /\ UNCHANGED <<panel_in, appVars, toolVars, htmlVars, loadVars>>

NextNames == ProposeLayerName

SpecNames == InitNames /\ [][NextNames]_vars

-----------------------------------------------------------------------------
(* Claims about VisualizationTool.visualize (checked under SpecTool)       *)

TheCall == Val(call)
TheOutcome == Val(ret)

\* the checks of lines 199-211 all pass
PassesValidation(c) ==
    /\ c.a.gdf_name # "" /\ c.a.layer_name # ""
    /\ Truthy(c.a.numeric) \/ Truthy(c.a.categorical) \/ c.a.heatmap \/ c.a.geometries
    /\ c.a.gdf_name \in Keys(c.self.env)
    /\ c.self.env[c.a.gdf_name].class = "GeoDataFrame"

\* the option that decides the renderer: numeric > categorical > heatmap > geometries
PriorityMode(a) ==
    IF Truthy(a.numeric) THEN "numeric"
    ELSE IF Truthy(a.categorical) THEN "categorical"
    ELSE IF a.heatmap THEN "heatmap" ELSE "geometries"

IsMessage(result) == result \notin {TrueResult, NoneResult, ""}

\* C3: visualize returns True if successful and an error message otherwise:
\* for every combination of arguments it returns True or a non-empty message,
\* never None and never a propagated exception; a missing column, a
\* non-numeric column for a numeric visualization, a dataset without Point
\* geometries for a heatmap and an exception raised by the renderer each
\* produce an error message.
C3_TrueOrMessage ==
    ret # None =>
        LET c == TheCall
            o == TheOutcome
            gdf == c.self.env[c.a.gdf_name]
            routed == PassesValidation(c) /\ c.a.method \in {"explore", "plot"}
            mode == PriorityMode(c.a)
        IN /\ ~o.raised
           /\ o.result = TrueResult \/ IsMessage(o.result)
           /\ routed /\ mode = "numeric" /\ Val(c.a.numeric).gdf_column \notin Columns(gdf)
                => IsMessage(o.result)
           /\ routed /\ mode = "numeric" /\ ~is_numeric_dtype(gdf, Val(c.a.numeric).gdf_column)
                => IsMessage(o.result)
           /\ routed /\ mode = "categorical"
                     /\ Val(c.a.categorical).gdf_column \notin Columns(gdf)
                => IsMessage(o.result)
           /\ routed /\ mode = "heatmap" /\ ~HasPoints(gdf) => IsMessage(o.result)
           /\ routed /\ "render" \in c.faults => IsMessage(o.result)

\* a plot call with a negative figure width has ended in an exception
C3_ExceptionPropagated ==
    /\ ret # None
    /\ TheCall.a.method = "plot"
    /\ TheCall.a.figsize = <<-1, 8>>
    /\ TheOutcome.raised
    /\ TheOutcome.result = NoneResult

\* C8: a visualize call that passes argument validation invokes exactly one
\* renderer, chosen by the priority numeric > categorical > heatmap >
\* geometries and by the method argument; any other method value returns the
\* "Invalid method" message and invokes no renderer.
C8_Dispatch ==
    (ret # None /\ PassesValidation(TheCall)) =>
        LET a == TheCall.a
            o == TheOutcome
        IN IF a.method \in {"explore", "plot"}
           THEN o.renderers = <<"_visualize_" \o PriorityMode(a) \o "_" \o a.method>>
           ELSE o.result = MsgInvalidMethod(a.method) /\ o.renderers = <<>>

\* a plot call that passed the checks has ended without invoking a renderer
C8_NoRendererInvoked ==
    /\ ret # None
    /\ PassesValidation(TheCall)
    /\ TheCall.a.method = "plot"
    /\ TheCall.a.geometries
    /\ TheOutcome.renderers = <<>>

\* the message of the first failing check, in the order of lines 199-207
ValidationFailure(c) ==
    IF c.a.gdf_name = "" \/ c.a.layer_name = ""
    THEN Some(MsgRequired)
    ELSE IF ~(Truthy(c.a.numeric) \/ Truthy(c.a.categorical) \/ c.a.heatmap \/ c.a.geometries)
    THEN Some(MsgNoOption)
    ELSE IF c.a.gdf_name \notin Keys(c.self.env)
    THEN Some(MsgInvalidName(c.a.gdf_name))
    ELSE None

\* C10: argument validation in visualize has no side effect: when gdf_name or
\* layer_name is empty, when no visualization option is set, or when gdf_name
\* is not a key of the environment (checked in that order), visualize returns
\* the message of the first failing check and leaves the map's children, the
\* dataset environment and the tool's current figure unchanged.
C10_ValidationNoSideEffect ==
    (ret # None /\ ValidationFailure(TheCall) # None) =>
        /\ TheOutcome.result = Val(ValidationFailure(TheCall))
        /\ ~TheOutcome.raised
        /\ TheOutcome.renderers = <<>>
        /\ TheOutcome.map = TheCall.self.map
        /\ TheOutcome.env = TheCall.self.env
        /\ TheOutcome.current_fig = TheCall.self.current_fig

\* an explore call naming an unknown dataset was answered with the message
C10_Witness ==
    /\ ret # None
    /\ TheCall.a.method = "explore"
    /\ TheCall.a.geometries
    /\ TheCall.a.layer_name # ""
    /\ TheCall.a.gdf_name = "gdf_7"
    /\ TheCall.self.current_fig # None
    /\ NumControls(TheCall.self.map) = 1
    /\ TheOutcome.result = MsgInvalidName("gdf_7")

-----------------------------------------------------------------------------
(* Claims about clear_map_html (checked under SpecHtml)                    *)

\* the markup with only the last piece of each pattern kept, the rest in place
RECURSIVE KeepLast(_)
KeepLast(html) ==
    IF html = <<>> THEN <<>>
    ELSE LET p == Head(html)
             rest == Tail(html)
         IN IF p.kind # "text" /\ \E i \in 1..Len(rest) : rest[i].kind = p.kind
            THEN KeepLast(rest)
            ELSE <<p>> \o KeepLast(rest)

\* C9: clear_map_html removes old layer controls: for every input markup the
\* output holds at most one layer-control variable declaration and at most one
\* creation statement; when the input holds one or more of a kind, the one
\* kept is the last occurrence in the input, and all other text is left
\* unchanged and in the same order.
C9_KeepsLastControl ==
    html_out # None =>
        LET input == Val(html_in)
            output == Val(html_out)
        IN /\ \A kind \in {"var", "creation"} :
                 /\ Len(finditer(kind, output)) <= 1
                 /\ finditer(kind, input) # <<>> =>
                       LET found == finditer(kind, input)
                       IN finditer(kind, output) = <<found[Len(found)]>>
           /\ output = KeepLast(input)

\* a markup that holds the same declaration twice has lost both
C9_LastOccurrenceRemoved ==
    /\ html_out # None
    /\ Val(html_in) = <<Piece("var", 1), Piece("text", 0), Piece("var", 1)>>
    /\ finditer("var", Val(html_out)) = <<>>

-----------------------------------------------------------------------------
(* Claims about load_data and the upload loop (checked under SpecLoad)     *)

\* the file makes load_data fail: an extension that is neither geojson nor
\* zip, or a read or a reprojection that raises
FailsToLoad(f) ==
    \/ Extension(f.name) \notin {"geojson", "zip"}
    \/ f.fault \in {"read_file", "to_crs"}

\* C5: a failed load is not fatal and changes nothing: for a file whose
\* extension is neither geojson nor zip, or whose reading or reprojection
\* raises, load_data returns None and leaves the geodataframes dictionary
\* unchanged (no entry added, no name consumed), and the remaining files of
\* the batch are still loaded.
C5_FailedLoadChangesNothing ==
    load_out # None =>
        LET env == Val(load_in).env
            files == Val(load_in).files
            out == Val(load_out)
            held == Cardinality(Keys(env))
            LoadedBefore(i) == Cardinality({j \in 1..(i - 1) : ~FailsToLoad(files[j])})
            NameOf(i) == "gdf_" \o ToString(held + LoadedBefore(i))
            loaded == {i \in 1..Len(files) : ~FailsToLoad(files[i])}
        IN /\ Len(out.names) = Len(files)
           /\ \A i \in 1..Len(files) :
                 FailsToLoad(files[i]) =>
                    /\ out.names[i] = None
                    /\ load_data(env, files[i]).name = None
                    /\ load_data(env, files[i]).env = env
                    /\ load_data(env, files[i]).errors # {}
           /\ \A i \in loaded :
                 /\ out.names[i] = Some(NameOf(i))
                 /\ NameOf(i) \in Keys(out.env)
                 /\ out.env[NameOf(i)] = files[i].content
           /\ Keys(out.env) = Keys(env) \cup {NameOf(i) : i \in loaded}
           /\ \A k \in Keys(env) : out.env[k] = env[k]

\* a batch whose first file fails in to_crs and whose second file loads, on
\* a dictionary that holds one dataset
C5_Witness ==
    /\ load_out # None
    /\ Keys(Val(load_in).env) = {"gdf_0"}
    /\ Val(load_in).files = <<NoCrsFile, PointsFile>>
    /\ Val(load_out).names = <<None, Some("gdf_1")>>
    /\ Keys(Val(load_out).env) = {"gdf_0", "gdf_1"}

-----------------------------------------------------------------------------
(* Claims about a session (checked under Spec)                             *)

TheSession == session_state[last.session]

\* the names gdf_0 .. gdf_{n-1}
GdfNames(n) == {"gdf_" \o ToString(i) : i \in 0..(n - 1)}

\* C1: dataset names are unique within a session: in every state reachable by
\* upload batches (with succeeding and failing files), Visualize clicks and
\* Clear clicks the keys of geodataframes are exactly gdf_0 .. gdf_{n-1} for n
\* the number of datasets held, and an upload stores every dataset it loads
\* under a name that was not a key and overwrites no dataset held.
C1_DatasetNamesUnique ==
    [][\A s \in Sessions :
          LET env == session_state[s].geodataframes
              after == session_state'[s].geodataframes
          IN /\ Keys(after) = GdfNames(Cardinality(Keys(after)))
             /\ (last'.event # "clear" \/ last'.session # s) =>
                    /\ Keys(env) \subseteq Keys(after)
                    /\ \A k \in Keys(env) : after[k] = env[k]]_vars

\* an upload of a failing and a loading file has brought a session that had
\* been through a batch before to MaxDatasets datasets
C1_Witness ==
    /\ last.event = "upload"
    /\ emitted[last.session] # {}
    /\ TheSession.file_uploader_key = MaxUploads
    /\ Keys(TheSession.geodataframes) = GdfNames(MaxDatasets)

\* the names of the layers added to a map, in the order they were added
LayerNames(map) == [i \in 1..Len(AddedLayers(map)) |-> AddedLayers(map)[i].name]

Distinct(names) ==
    \A i, j \in 1..Len(names) : names[i] = names[j] => i = j

\* C2: layer names are unique within a session: a Visualize click whose
\* result is True never uses the name of a layer already recorded, so it
\* increases the number of recorded layers by exactly one, replaces no layer
\* record, and no two layers added to the map share a name, for every layer
\* name the user can enter.
C2_LayerNamesUnique ==
    [][\A s \in Sessions :
          (last'.event = "visualize" /\ last'.session = s /\ emitted'[s] = {}) =>
             LET layers == session_state[s].layers
                 after == session_state'[s].layers
             IN /\ Cardinality(Keys(after)) = Cardinality(Keys(layers)) + 1
                /\ \A k \in Keys(layers) : k \in Keys(after) /\ after[k] = layers[k]
                /\ Distinct(LayerNames(session_state'[s].map))]_vars

\* a Visualize click has added a second layer under the name of the first
C2_Reused ==
    /\ last.event = "visualize"
    /\ emitted[last.session] = {}
    /\ Len(AddedLayers(TheSession.map)) = 2
    /\ ~Distinct(LayerNames(TheSession.map))
    /\ Cardinality(Keys(TheSession.layers)) = 1

\* C4: an error is surfaced to the user: the error message of a Visualize
\* click, or of a file of an upload batch that fails to load, is part of the
\* output of the script run that finally completes and is displayed; it is
\* not discarded by the rerun triggered before that run ends.
C4_ErrorSurfaced ==
    [][\A s \in Sessions :
          (last'.event = "rerun" /\ last'.session = s) =>
              emitted[s] \subseteq screen'[s]]_vars

\* a run that emitted an error message has ended in st.rerun()
C4_ErrorEmitted ==
    /\ last.event \in {"upload", "visualize"}
    /\ pending[last.session]
    /\ emitted[last.session] # {}

\* C6: session reset: a Clear click leaves the session with an empty
\* geodataframes dictionary, an empty layers dictionary and a freshly created
\* map that holds none of the layers added before and exactly one layer
\* control; the next dataset loaded is named gdf_0 and the next default layer
\* name carries no numeric suffix.
C6_ClearResets ==
    [][\A s \in Sessions :
          (last'.event = "clear" /\ last'.session = s) =>
             LET ss == session_state'[s]
             IN /\ ss.geodataframes = EmptyDict
                /\ ss.layers = EmptyDict
                /\ ss.map = create_map
                /\ AddedLayers(ss.map) = <<>>
                /\ NumControls(ss.map) = 1
                /\ \A f \in LoadFiles :
                      ~FailsToLoad(f) =>
                         load_data(ss.geodataframes, f).name = Some("gdf_0")
                /\ layer_name_default("gdf_0", Keys(ss.layers)) = "Layer_gdf_0"
                /\ ss.file_uploader_key = session_state[s].file_uploader_key
                /\ ss.themes = session_state[s].themes]_vars

\* Clear has been clicked in a session that had been through MaxUploads
\* batches
C6_Witness ==
    /\ last.event = "clear"
    /\ TheSession.file_uploader_key = MaxUploads
    /\ TheSession.map = create_map
    /\ Keys(TheSession.layers) = {}

-----------------------------------------------------------------------------
(* Claims about two sessions of one process (checked under SpecSessions)   *)

\* C7: there is no shared mutable state beyond the per-session dictionaries:
\* no action performed in one session (upload, Visualize, Clear, theme button
\* click, export) changes any state that the other session reads in its
\* later runs: the other session's st.session_state and the configuration of
\* the process, which every run is rendered with.
C7_NoSharedState ==
    [][\A s \in Sessions :
          last'.session # s =>
             /\ session_state'[s] = session_state[s]
             /\ config' = config]_vars

\* a theme click of one session has changed the configuration of the process
\* while the other session still has the theme it started with
C7_ThemeLeaks ==
    /\ last = Ran("A", "theme")
    /\ config = "light"
    /\ session_state["B"].themes = NewSession.themes

-----------------------------------------------------------------------------
(* Claims about the numeric settings (checked under SpecNumeric)           *)

TheWidgets == Val(panel_in).w
TheParams == Val(panel_out).numeric_params
TheKwargs == Val(panel_out).kwargs

\* C11: numeric mode is either continuous or classified: for every Numeric
\* parameter set the panel can build, in continuous mode scheme and k are
\* both None and the renderer is asked to show a colorbar; in classification
\* mode scheme is a member of Scheme, k is an integer in 2..10, both are
\* passed to the renderer and no colorbar is requested; vmin and vmax are
\* non-None only in continuous mode with the custom range enabled.
C11_ContinuousOrClassified ==
    panel_out # None =>
        /\ TheWidgets.continuous =>
              /\ TheParams.scheme = None /\ TheParams.k = None
              /\ TheKwargs.scheme = None /\ TheKwargs.k = None
              /\ TheKwargs.colorbar
        /\ ~TheWidgets.continuous =>
              /\ TheParams.scheme \in {Some(member) : member \in Scheme}
              /\ TheParams.k \in {Some(n) : n \in 2..10}
              /\ TheKwargs.scheme = TheParams.scheme
              /\ TheKwargs.k = TheParams.k
              /\ ~TheKwargs.colorbar
        /\ (TheParams.vmin # None \/ TheParams.vmax # None) =>
              TheWidgets.continuous /\ TheWidgets.use_custom_range
        /\ (TheWidgets.continuous /\ TheWidgets.use_custom_range) =>
              TheParams.vmin # None /\ TheParams.vmax # None
        /\ TheKwargs.vmin = TheParams.vmin /\ TheKwargs.vmax = TheParams.vmax

\* the panel has built classified parameters with ten classes
C11_Witness ==
    /\ panel_out # None
    /\ ~TheWidgets.continuous
    /\ TheParams.k = Some(MaxClasses)
    /\ TheParams.scheme = Some("StdMean")
    /\ TheParams.vmin = None
    /\ ~TheKwargs.colorbar

-----------------------------------------------------------------------------
(* Claims about the calls of visualize a session makes (checked under      *)
(* SpecTraced)                                                             *)

\* the layer record that holds the arguments a of a visualize call
RecordOf(a) ==
    [geodataframe |-> a.gdf_name,
     visualization_type |-> PriorityMode(a),
     numeric_params |-> a.numeric,
     categorical_params |-> a.categorical,
     heatmap |-> a.heatmap,
     geometries |-> a.geometries]

\* C12: PNG export reproduces the layer as it was created: a successful
\* Visualize stores the arguments of its visualize call under the layer name,
\* the record stays as stored until a Visualize under the same name or a
\* Clear, and exporting a selected layer as PNG calls visualize with method
\* 'plot' and the dataset name, numeric parameters, categorical parameters,
\* heatmap flag and geometries flag of the record, whatever the settings
\* panel holds; with no layer selected it reports 'No layer selected for
\* export!' and calls nothing.
C12_ExportReproducesLayer ==
    [][\A s \in Traced.sessions :
          LET layers == session_state[s].layers
              after == session_state'[s].layers
          IN /\ (last'.event = "visualize" /\ Val(ret').result = TrueResult) =>
                   LET a == Val(call').a
                   IN /\ after[a.layer_name] = RecordOf(a)
                      /\ \A k \in Keys(layers) \ {a.layer_name} :
                            k \in Keys(after) /\ after[k] = layers[k]
             /\ (last'.event = "visualize" /\ Val(ret').result # TrueResult) =>
                   after = layers
             /\ last'.event \in {"upload", "export", "rerun"} => after = layers
             /\ (last'.event = "export" /\ call' # None) =>
                   LET a == Val(call').a
                   IN /\ a.layer_name \in Keys(layers)
                      /\ a.method = "plot"
                      /\ a.figsize = ExportFigsize
                      /\ RecordOf(a) = layers[a.layer_name]
                      /\ Val(call').self.env = session_state[s].geodataframes
             /\ (last'.event = "export" /\ MsgNoLayerSelected \in screen'[s]) =>
                   call' = None /\ Keys(layers) = {}
             /\ (last'.event = "export" /\ Keys(layers) = {}) =>
                   /\ call' = None
                   /\ screen'[s] \cap {MsgNoLayerSelected, MsgHtmlExported} # {}
                   /\ MsgPngExported \notin screen'[s]]_vars

\* a PNG export has plotted a layer of classified numeric data of a session
\* that holds two layers
C12_Witness ==
    /\ last.event = "export"
    /\ call # None
    /\ Val(call).a.method = "plot"
    /\ Truthy(Val(call).a.numeric)
    /\ Truthy(Val(Val(call).a.numeric).scheme)
    /\ ~Val(call).a.geometries
    /\ Cardinality(Keys(TheSession.layers)) = 2
    /\ MsgPngExported \in screen[last.session]

-----------------------------------------------------------------------------
(* Claims about the layer control of the map (checked under SpecTool)      *)

\* C13: after every visualize call with method 'explore' that passes argument
\* validation, whether it returns True or an error message (column not
\* found, column not numeric, no point geometries, renderer exception), the
\* map holds exactly one layer control.
C13_OneLayerControl ==
    (ret # None /\ PassesValidation(TheCall) /\ TheCall.a.method = "explore") =>
        NumControls(TheOutcome.map) = 1

\* an explore call naming a column the dataset does not have has returned
\* its message and left the map without a layer control
C13_NoControlLeft ==
    /\ ret # None
    /\ PassesValidation(TheCall)
    /\ TheCall.a.method = "explore"
    /\ NumControls(TheCall.self.map) = 1
    /\ TheOutcome.result = MsgColumnNotFound("area", "gdf_0")
    /\ NumControls(TheOutcome.map) = 0

-----------------------------------------------------------------------------
(* Claims about the uploader (checked under Spec)                          *)

\* C14: the uploader is reset after each batch so no file is loaded twice: a
\* run that sees a non-empty batch increases file_uploader_key by exactly
\* one, whatever the number of files and of failures, adds at most one entry
\* per file and reruns; the following run sees an empty uploader and loads
\* nothing, and no other run changes the key.
C14_UploaderReset ==
    [][\A s \in Sessions :
          last'.session = s =>
             LET ss == session_state[s]
                 after == session_state'[s]
                 added == Cardinality(Keys(after.geodataframes))
                              - Cardinality(Keys(ss.geodataframes))
             IN /\ last'.event = "upload" =>
                      /\ after.file_uploader_key = ss.file_uploader_key + 1
                      /\ after.uploader = <<>>
                      /\ pending'[s]
                      /\ added \in 0..MaxBatch
                      /\ (emitted'[s] # {}) => added < MaxBatch
                /\ last'.event = "rerun" =>
                      /\ after.geodataframes = ss.geodataframes
                      /\ after.file_uploader_key = ss.file_uploader_key
                      /\ ~pending'[s]
                /\ last'.event \notin {"upload", "rerun"} =>
                      after.file_uploader_key = ss.file_uploader_key]_vars

\* the run after the second batch has ended with the datasets of both
\* batches on the screen's map
C14_Witness ==
    /\ last.event = "rerun"
    /\ ~pending[last.session]
    /\ TheSession.file_uploader_key = 2
    /\ TheSession.uploader = <<>>
    /\ Cardinality(Keys(TheSession.geodataframes)) = 2
    /\ screen[last.session] = {MsgMap}

-----------------------------------------------------------------------------
(* Claims about the default layer name (checked under SpecNames)           *)

\* C15: default layer names are numbered when the name already exists: for
\* every set of recorded layers and every selected dataset d the numbering
\* loop terminates and the proposed default name is not a key of the layers
\* dictionary; it is 'Layer_d' when that name is unused and otherwise
\* 'Layer_d_i' for the smallest i >= 1 such that 'Layer_d_i' is unused.
C15_DefaultNameNumbered ==
    panel_out # None =>
        LET existing == Val(panel_in).existing_layers
            base == "Layer_" \o Val(panel_in).selected_gdf
            name == Val(panel_out).layer_name_default
            Candidate(i) == base \o "_" \o ToString(i)
        IN /\ name \notin existing
           /\ base \notin existing => name = base
           /\ base \in existing =>
                 \E i \in 1..Cardinality(existing) :
                    /\ name = Candidate(i)
                    /\ \A j \in 1..(i - 1) : Candidate(j) \in existing

\* Layer_gdf_0, Layer_gdf_0_1 and Layer_gdf_0_2 are recorded and the name
\* proposed for gdf_0 is Layer_gdf_0_3
C15_Witness ==
    /\ panel_out # None
    /\ Val(panel_in).selected_gdf = "gdf_0"
    /\ {"Layer_gdf_0", "Layer_gdf_0_1", "Layer_gdf_0_2"}
           \subseteq Val(panel_in).existing_layers
    /\ Val(panel_out).layer_name_default = "Layer_gdf_0_3"

-----------------------------------------------------------------------------
(* More claims about the numeric settings (checked under SpecNumeric)      *)

\* the option st.selectbox shows first: the one at index=10 (lines 419-423)
PreselectedScheme == OptionAt(SchemeNames, DefaultSchemeIndex)

\* C16: the classification scheme preselected in the numeric settings (the
\* option at index 10 of the list of Scheme member names in definition
\* order) is Quantiles.
C16_PreselectedQuantiles ==
    (panel_out # None /\ ~TheWidgets.continuous
                      /\ TheWidgets.scheme = PreselectedScheme) =>
        TheParams.scheme = Some("Quantiles")

\* parameters built with the scheme box left as it was first shown hold the
\* scheme NaturalBreaks
C16_NaturalBreaks ==
    /\ panel_out # None
    /\ ~TheWidgets.continuous
    /\ TheWidgets.scheme = PreselectedScheme
    /\ TheWidgets.k = DefaultClasses
    /\ TheParams.scheme = Some("NaturalBreaks")
    /\ TheKwargs.scheme = Some("NaturalBreaks")

\* what the panel builds and the renderer gets for widget values w
Built(w) ==
    LET numeric_params == NumericPanel(Val(panel_in).gdf, w)
    IN [numeric_params |-> numeric_params,
        kwargs |-> numeric_explore_kwargs(numeric_params, "Layer_gdf_0")]

\* C17: the point size and stroke width chosen in the settings panel are
\* carried in the parameters handed to visualize and stored with the layer:
\* two Visualize clicks that differ only in point size or stroke width hand
\* different parameters to the renderer.
C17_SizesReachRenderer ==
    panel_out # None =>
        /\ \A point_size \in PointSizes \ {TheWidgets.point_size} :
              LET other == Built([TheWidgets EXCEPT !.point_size = point_size])
              IN /\ other.numeric_params # TheParams
                 /\ other.kwargs # TheKwargs
        /\ line_present(Val(panel_in).gdf) =>
              \A stroke_size \in StrokeSizes \ {TheWidgets.stroke_size} :
                 LET other == Built([TheWidgets EXCEPT !.stroke_size = stroke_size])
                 IN /\ other.numeric_params # TheParams
                    /\ other.kwargs # TheKwargs

\* parameters built for a lines dataset with point size 20 and stroke width
\* 3.0 are the parameters built with the defaults 5 and 1.5
C17_SizesDropped ==
    /\ panel_out # None
    /\ line_present(Val(panel_in).gdf)
    /\ TheWidgets.point_size = 20
    /\ TheWidgets.stroke_size = 30
    /\ DOMAIN TheParams = NumericFields
    /\ Val(panel_out) = Built([TheWidgets EXCEPT !.point_size = DefaultPointSize,
                                                  !.stroke_size = DefaultStrokeSize])

-----------------------------------------------------------------------------
(* Claims about the dataset shown by default (checked under Spec)          *)

\* C18: the latest dataset is shown by default: whenever at least one dataset
\* is loaded, the dataset preselected in the 'Select GeoDataFrame' box is the
\* one loaded most recently in the session (the key gdf_{n-1}); when no
\* dataset is loaded the run stops before the settings widgets, the
\* Visualize button and the map are rendered.
C18_LatestShownByDefault ==
    [][\A s \in Sessions :
          last'.session = s =>
             LET env == session_state[s].geodataframes
                 after == session_state'[s].geodataframes
                 n == Cardinality(Keys(after))
             IN /\ Keys(after) # {} =>
                      /\ PreselectedGdf(after) \in Keys(after)
                      /\ PreselectedGdf(after) = "gdf_" \o ToString(n - 1)
                /\ (last'.event = "upload" /\ Keys(after) # Keys(env)) =>
                      PreselectedGdf(after) \notin Keys(env)
                /\ (last'.event \in {"rerun", "export"} /\ Keys(after) = {}) =>
                      /\ MsgGetStarted \in screen'[s]
                      /\ MsgMap \notin screen'[s]
                /\ last'.event = "visualize" => Keys(env) # {}]_vars

\* a second batch has brought the session its second dataset, which is the
\* one preselected
C18_Witness ==
    /\ last.event = "upload"
    /\ TheSession.file_uploader_key = 2
    /\ Cardinality(Keys(TheSession.geodataframes)) = 2
    /\ PreselectedGdf(TheSession.geodataframes) = "gdf_1"
    /\ TheSession.geodataframes["gdf_1"] = LinesGdf
    /\ TheSession.geodataframes["gdf_0"] = PointsGdf

-----------------------------------------------------------------------------
(* Claims about the layer records (checked under Spec)                     *)

\* C19: referential integrity of layers: in every state reachable by upload,
\* Visualize, export and Clear actions every entry of the layers dictionary
\* names in its 'geodataframe' field a key of the geodataframes dictionary,
\* so the dataset lookup of a PNG export never fails with a missing key; in
\* particular layers is non-empty only if geodataframes is non-empty.
C19_LayersReferToDatasets ==
    \A s \in Sessions :
       LET ss == session_state[s]
       IN /\ \A k \in Keys(ss.layers) :
                /\ ss.layers[k].geodataframe \in Keys(ss.geodataframes)
                /\ ExportCalls(ss, "Layer as PNG", Some(k))
          /\ Keys(ss.layers) # {} => Keys(ss.geodataframes) # {}
          /\ MsgExportError \notin screen[s]

\* a PNG export succeeded in a session that uploaded two batches and holds a
\* layer of its second dataset
C19_Witness ==
    /\ last.event = "export"
    /\ MsgPngExported \in screen[last.session]
    /\ TheSession.file_uploader_key >= 2
    /\ \E k \in Keys(TheSession.layers) : TheSession.layers[k].geodataframe = "gdf_1"

-----------------------------------------------------------------------------
(* Claims about a failed Visualize (checked under SpecTraced)              *)

\* the call passes no visualization option
NoOption(a) ==
    ~(Truthy(a.numeric) \/ Truthy(a.categorical) \/ a.heatmap \/ a.geometries)

\* the modes whose panel offers nothing for a dataset that lacks what they show
ModesWithoutOption(gdf) ==
    (IF HasPoints(gdf) THEN {} ELSE {"Heatmap"})
    \cup (IF gdf.numeric = {} THEN {"Numeric"} ELSE {})
    \cup (IF gdf.other = {} THEN {"Categorical"} ELSE {})

\* C20: a failed Visualize records no layer: whenever the result of visualize
\* is not True the layers dictionary is left unchanged.  This includes a click
\* in Heatmap mode on a dataset without Point geometries, in Numeric mode on a
\* dataset without numeric columns and in Categorical mode on a dataset
\* without categorical columns (each passes no visualization option and
\* yields 'At least one visualization option must be provided.') and a click
\* with an empty layer name.
C20_FailedVisualizeRecordsNothing ==
    [][last'.event = "visualize" =>
          LET s == last'.session
              a == Val(call').a
              o == Val(ret')
              gdf == session_state[s].geodataframes[a.gdf_name]
              unchanged == session_state'[s].layers = session_state[s].layers
          IN /\ (o.raised \/ o.result # TrueResult) => unchanged
             /\ \A viz_type \in ModesWithoutOption(gdf) :
                   \A p \in PanelParams(gdf, viz_type, BOOLEAN) :
                      NoOption([a EXCEPT !.numeric = p.numeric_params,
                                         !.categorical = p.categorical_params,
                                         !.heatmap = p.use_heatmap,
                                         !.geometries = p.use_geometries])
             /\ (NoOption(a) /\ a.layer_name # "") =>
                   /\ o.result = MsgNoOption
                   /\ emitted'[s] = {MsgNoOption}
                   /\ unchanged
             /\ a.layer_name = "" =>
                   /\ o.result = MsgRequired
                   /\ emitted'[s] = {MsgRequired}
                   /\ unchanged]_vars

\* a click in a mode that offers nothing for the lines dataset was refused;
\* the session holds a layer recorded before
C20_Witness ==
    /\ last.event = "visualize"
    /\ call # None
    /\ NoOption(Val(call).a)
    /\ TheSession.geodataframes[Val(call).a.gdf_name] = LinesGdf
    /\ Val(ret).result = MsgNoOption
    /\ emitted[last.session] = {MsgNoOption}
    /\ Keys(TheSession.layers) # {}
    /\ Val(call).a.layer_name \notin Keys(TheSession.layers)

====
